---- MODULE Spec2Model ----
(***************************************************************************)
(* Model of the SPARC calculator adapter (src/sparc/calculator.py):        *)
(* construction (_sanitize_kwargs), command resolution (_make_command),    *)
(* and the calculate pipeline write_input -> execute -> read_results.      *)
(*                                                                         *)
(* Python strings that are formatted or stripped (commands, extras) are    *)
(* sequences of tokens, the token " " being one blank.  Dictionaries are   *)
(* functions whose domain is the set of their keys; the order in which     *)
(* kwargs are iterated is kept by passing them as a sequence of            *)
(* <<key, value>> pairs with distinct keys.                                *)
(***************************************************************************)
EXTENDS Integers, Sequences, FiniteSets, TLC

VARIABLES
    pc,              \* position of the calculator: "new", "idle", or the phase of calculate() about to run
    kwargs,          \* **kwargs handed to SPARC.__init__, in iteration order
    valid_params,    \* self.valid_params
    special_params,  \* self.special_params
    warnings,        \* set of warn() messages issued so far, as <<kind, key>>
    atoms,           \* self.atoms
    command,         \* self.command
    environ,         \* os.environ["ASE_SPARC_COMMAND"]
    path,            \* what _find_default_sparc() sees in $PATH: [sparc_exe, mpi_exe]
    made,            \* value returned by the last _make_command call
    proc,            \* self.proc (CompletedProcess of the last subprocess.run)
    launch,          \* outcome of the last subprocess.run attempt of this call
    input_parameters,\* input_parameters last passed to sparc_bundle._write_ion_and_inpt
    raw_results,     \* self.raw_results
    results,         \* self.results
    exc,             \* exception that ended the last call, "none" if it returned
    trace            \* methods entered during the current/last call, in order

vars == <<pc, kwargs, valid_params, special_params, warnings, atoms, command,
          environ, path, made, proc, launch, input_parameters, raw_results,
          results, exc, trace>>

-----------------------------------------------------------------------------
(* Bounds *)

\* largest number of keyword arguments given to the constructor
MaxKwargs == 3

-----------------------------------------------------------------------------
(* Python values *)

\* Python's None where a string (token sequence) is expected
None == <<"<None>">>

\* no atoms object
NoAtoms == "None"

\* the empty dict
EmptyDict == <<>>

\* d[k] = v
DictSet(d, k, v) == [x \in DOMAIN d \cup {k} |-> IF x = k THEN v ELSE d[x]]

\* d.pop(k) as far as the remaining dict goes
DictPop(d, k) == [x \in DOMAIN d \ {k} |-> d[x]]

\* d.update(e): e's entries win
DictUpdate(d, e) == [x \in DOMAIN d \cup DOMAIN e |-> IF x \in DOMAIN e THEN e[x] ELSE d[x]]

\* d.get(k, default)
DictGet(d, k, default) == IF k \in DOMAIN d THEN d[k] ELSE default

-----------------------------------------------------------------------------
(* Parameter names and values *)

\* sparc_python_inputs / SPARC.special_inputs
special_inputs == {"xc", "h", "kpts", "convergence", "gpts", "nbands", "encut"}

\* SPARC keywords the special parameters are converted to
SparcKeywords == {"EXCHANGE_CORRELATION", "FD_GRID", "KPOINT_GRID", "NSTATES"}

\* str.upper() on the parameter names of the model
Upper(key) ==
    CASE key \in {"xc", "Xc", "XC"} -> "XC"
      [] key \in {"h", "H"} -> "H"
      [] key \in {"kpts", "KPTS"} -> "KPTS"
      [] key \in {"convergence", "CONVERGENCE"} -> "CONVERGENCE"
      [] key \in {"gpts", "GPTS"} -> "GPTS"
      [] key \in {"nbands", "NBANDS"} -> "NBANDS"
      [] key \in {"encut", "ENCUT"} -> "ENCUT"
      [] key \in {"fd_grid", "Fd_Grid", "FD_GRID"} -> "FD_GRID"
      [] key \in {"kpoint_grid", "KPOINT_GRID"} -> "KPOINT_GRID"
      [] key \in {"nstates", "NSTATES"} -> "NSTATES"
      [] key \in {"exchange_correlation", "EXCHANGE_CORRELATION"} -> "EXCHANGE_CORRELATION"

\* str.lower() on the xc functional names of the model
Lower(value) ==
    CASE value \in {"pbe", "PBE", "Pbe"} -> "pbe"
      [] value \in {"lda", "LDA"} -> "lda"
      [] value \in {"scan", "SCAN"} -> "scan"
      [] value \in {"eV", "EV", "ev"} -> "ev"
      [] value \in {"Hartree", "hartree"} -> "hartree"
      [] OTHER -> value   \* the other values of the model have no upper-case letter

\* defaultAPI.validate_input(key, value): the values the SPARC API accepts
\* for a keyword; a name that is no SPARC keyword is not accepted.
validate_input(key, value) ==
    CASE key \in {"FD_GRID", "KPOINT_GRID", "NSTATES"} -> value \in {"v1", "v2"}
      [] key = "EXCHANGE_CORRELATION" -> value \in {"GGA_PBE", "LDA_PW"}
      [] OTHER -> FALSE

\* h2gpts(h, atoms.cell): the grid for spacing h in the cell
h2gpts(h, cell) ==
    CASE h = "h1" -> "v1"
      [] h = "h2" -> "v2"
      [] OTHER -> "bad"

-----------------------------------------------------------------------------
(* SPARC._sanitize_kwargs *)

\* A buggy variant: the validator's verdict is ignored.
RECURSIVE sanitize_unchecked(_, _, _)
sanitize_unchecked(kw, i, acc) ==
    IF i > Len(kw) THEN acc
    ELSE LET key == kw[i][1]
             value == kw[i][2]
         IN  IF key \in special_inputs
             THEN sanitize_unchecked(kw, i + 1,
                      [acc EXCEPT !.special_params = DictSet(@, key, value)])
             ELSE sanitize_unchecked(kw, i + 1,
                      [acc EXCEPT !.valid_params = DictSet(@, Upper(key), value)])

\* The loop of _sanitize_kwargs from its i-th item on; acc holds
\* valid_params, special_params and the warnings issued so far.
RECURSIVE sanitize_loop(_, _, _)
sanitize_loop(kw, i, acc) ==
    IF i > Len(kw) THEN acc
    ELSE LET key == kw[i][1]
             value == kw[i][2]
         IN  IF key \in special_inputs
             THEN sanitize_loop(kw, i + 1,
                      [acc EXCEPT !.special_params = DictSet(@, key, value)])
             ELSE LET ukey == Upper(key)
                      w1 == IF ukey \in DOMAIN acc.valid_params
                            THEN acc.warnings \cup {<<"multiple", ukey>>}
                            ELSE acc.warnings
                  IN  IF validate_input(ukey, value)
                      THEN sanitize_loop(kw, i + 1,
                               [acc EXCEPT !.valid_params = DictSet(@, ukey, value),
                                           !.warnings = w1])
                      ELSE sanitize_loop(kw, i + 1,
                               [acc EXCEPT !.warnings = w1 \cup {<<"invalid", ukey>>}])

sanitize_buggy(kw) ==
    sanitize_unchecked(kw, 1,
        [valid_params |-> EmptyDict, special_params |-> EmptyDict, warnings |-> {}])

\* _sanitize_kwargs(kwargs): (valid_params, special_params) and the warnings
sanitize_kwargs(kw) ==
    sanitize_loop(kw, 1,
        [valid_params |-> EmptyDict, special_params |-> EmptyDict, warnings |-> {}])

-----------------------------------------------------------------------------
(* SPARC._convert_special_params *)

\* lines 273-279: xc --> EXCHANGE_CORRELATION; st is [raised, params, converted]
convert_xc(st) ==
    IF "xc" \in DOMAIN st.params
    THEN LET xc == st.params["xc"]
             rest == DictPop(st.params, "xc")
         IN  IF Lower(xc) = "pbe"
             THEN [st EXCEPT !.params = rest,
                             !.converted = DictSet(@, "EXCHANGE_CORRELATION", "GGA_PBE")]
             ELSE IF Lower(xc) = "lda"
             THEN [st EXCEPT !.params = rest,
                             !.converted = DictSet(@, "EXCHANGE_CORRELATION", "LDA_PW")]
             ELSE [st EXCEPT !.params = rest]
    ELSE st

\* A buggy variant: h silently replaces gpts, and a missing atoms object is
\* not noticed.
convert_h_unguarded(st, atoms_arg) ==
    IF st.raised = "none" /\ "h" \in DOMAIN st.params
    THEN [st EXCEPT !.params = DictSet(DictPop(st.params, "h"), "gpts",
                                       h2gpts(st.params["h"], atoms_arg))]
    ELSE st

\* lines 281-294: h --> gpts
convert_h(st, atoms_arg) ==
    IF st.raised = "none" /\ "h" \in DOMAIN st.params
    THEN IF "gpts" \in DOMAIN st.params
         THEN [st EXCEPT !.raised = "KeyError"]
         ELSE IF atoms_arg = NoAtoms
         THEN [st EXCEPT !.raised = "ValueError", !.params = DictPop(@, "h")]
         ELSE [st EXCEPT !.params = DictSet(DictPop(st.params, "h"), "gpts",
                                            h2gpts(st.params["h"], atoms_arg))]
    ELSE st

\* lines 296-324: the three blocks gpts --> FD_GRID, kpts --> KPOINT_GRID and
\* nbands --> NSTATES have this one shape
convert_validated(st, name, keyword) ==
    IF st.raised = "none" /\ name \in DOMAIN st.params
    THEN LET value == st.params[name]
         IN  IF validate_input(keyword, value)
             THEN [st EXCEPT !.params = DictPop(@, name),
                             !.converted = DictSet(@, keyword, value)]
             ELSE [st EXCEPT !.params = DictPop(@, name), !.raised = "ValueError"]
    ELSE st

\* _convert_special_params(atoms): [raised |-> the exception raised or "none",
\* converted |-> converted_sparc_params, params |-> what is left of the copy]
convert_special_params(special, atoms_arg) ==
    LET s0 == [raised |-> "none", params |-> special, converted |-> EmptyDict]
        s1 == convert_xc(s0)
        s2 == convert_h(s1, atoms_arg)
        s3 == convert_validated(s2, "gpts", "FD_GRID")
        s4 == convert_validated(s3, "kpts", "KPOINT_GRID")
        s5 == convert_validated(s4, "nbands", "NSTATES")
    IN  s5

-----------------------------------------------------------------------------
(* SPARC._make_command *)

\* " ".join(items) for a sequence of strings
RECURSIVE Join(_)
Join(items) ==
    IF Len(items) = 0 THEN <<>>
    ELSE IF Len(items) = 1 THEN items[1]
    ELSE items[1] \o <<" ">> \o Join(Tail(items))

\* str.lstrip() / str.rstrip() / str.strip() for blanks
RECURSIVE LStrip(_)
LStrip(str) == IF Len(str) > 0 /\ str[1] = " " THEN LStrip(Tail(str)) ELSE str

RECURSIVE RStrip(_)
RStrip(str) ==
    IF Len(str) > 0 /\ str[Len(str)] = " "
    THEN RStrip(SubSeq(str, 1, Len(str) - 1))
    ELSE str

Strip(str) == RStrip(LStrip(str))

\* lines 89-92: extras is [list |-> BOOLEAN, value |-> a string or a sequence of strings]
normalize_extras(extras) ==
    IF extras.list THEN Join(extras.value) ELSE Strip(extras.value)

\* lines 102-105: the command inferred from _find_default_sparc()
inferred_command(pth) ==
    IF pth.mpi_exe # None
    THEN pth.mpi_exe \o <<" ", "-n", " ">> \o pth.num_cores \o <<" ">> \o pth.sparc_exe
    ELSE pth.sparc_exe

\* A buggy variant: $ASE_SPARC_COMMAND is looked up on every call and wins
\* over self.command.
make_command_env_first(cmd, env, pth, extras) ==
    LET ex == normalize_extras(extras)
        base == IF env # None THEN env
                ELSE IF cmd # None THEN cmd
                ELSE IF pth.sparc_exe # None THEN inferred_command(pth)
                ELSE None
    IN  IF base = None
        THEN [raised |-> "EnvironmentError", command |-> cmd, result |-> None, warned |-> FALSE]
        ELSE [raised |-> "none", command |-> base,
              result |-> base \o <<" ">> \o ex, warned |-> FALSE]

\* _make_command(extras) with self.command = cmd, $ASE_SPARC_COMMAND = env and
\* _find_default_sparc() = pth: the exception raised, the new self.command,
\* the string returned and whether the inference warning was issued
make_command(cmd, env, pth, extras) ==
    LET ex == normalize_extras(extras)
    IN  IF cmd = None
        THEN IF env = None
             THEN IF pth.sparc_exe = None
                  THEN [raised |-> "EnvironmentError", command |-> cmd,
                        result |-> None, warned |-> FALSE]
                  ELSE LET command_env == inferred_command(pth)
                       IN  [raised |-> "none", command |-> command_env,
                            result |-> command_env \o <<" ">> \o ex, warned |-> TRUE]
             ELSE [raised |-> "none", command |-> env,
                   result |-> env \o <<" ">> \o ex, warned |-> FALSE]
        ELSE [raised |-> "none", command |-> cmd,
              result |-> cmd \o <<" ">> \o ex, warned |-> FALSE]

-----------------------------------------------------------------------------
(* SPARC.execute and SPARC.read_results *)

\* A buggy variant: only exit codes above 1 count as failures.
execute_check_lenient(errorcode) ==
    IF errorcode > 1 THEN "CalculationFailed" ELSE "none"

\* lines 160-166: the exception execute raises for the program's exit code
execute_check(errorcode) ==
    IF errorcode > 0 THEN "CalculationFailed" ELSE "none"

\* value * Hartree, kept symbolic
TimesHartree(value) == value \o <<"*", "Hartree">>

\* _extract_static_results
extract_static_results(raw, res) ==
    LET static_results == DictGet(raw, "static", EmptyDict)
        r1 == IF "free energy" \in DOMAIN static_results
              THEN DictSet(DictSet(res, "energy", static_results["free energy"]),
                           "free energy", static_results["free energy"])
              ELSE res
        r2 == IF "forces" \in DOMAIN static_results
              THEN DictSet(r1, "forces", static_results["forces"])
              ELSE r1
        r3 == IF "stress" \in DOMAIN static_results
              THEN DictSet(r2, "stress", static_results["stress"])
              ELSE r2
    IN  r3

\* _extract_geopt_results: defined outside calculator.py; taken to leave
\* self.results as they are
extract_geopt_results(raw, res) == res

\* get_last_ionic_step
get_last_ionic_step(raw) ==
    LET out_results == DictGet(raw, "out", EmptyDict)
        ionic_steps == DictGet(out_results, "ionic_steps", <<>>)
    IN  IF Len(ionic_steps) > 0 THEN ionic_steps[Len(ionic_steps)] ELSE EmptyDict

\* _extract_out_results: [raised, results]
extract_out_results(raw, res) ==
    LET last_step == get_last_ionic_step(raw)
    IN  IF "fermi level" \in DOMAIN last_step
        THEN LET value == last_step["fermi level"].value
                 unit == last_step["fermi level"].unit
             IN  IF Lower(unit) = "ev"
                 THEN [raised |-> "none", results |-> DictSet(res, "fermi", value)]
                 ELSE IF Lower(unit) = "hartree"
                 THEN [raised |-> "none", results |-> DictSet(res, "fermi", TimesHartree(value))]
                 ELSE [raised |-> "ValueError", results |-> res]
        ELSE [raised |-> "none", results |-> res]

\* lines 173-183 of read_results for the dict the bundle returned: the
\* exception raised, the new self.results and the methods called, in order.
\* Line 177 calls the dict self.raw_results, which raises TypeError.
read_results_dispatch(raw, res) ==
    IF "static" \in DOMAIN raw
    THEN LET out == extract_out_results(raw, extract_static_results(raw, res))
         IN  [raised |-> out.raised, results |-> out.results,
              called |-> <<"_extract_static_results", "_extract_out_results">>]
    ELSE IF "geopt" \in DOMAIN raw
    THEN LET out == extract_out_results(raw, extract_geopt_results(raw, res))
         IN  [raised |-> out.raised, results |-> out.results,
              called |-> <<"_extract_geopt_results", "_extract_out_results">>]
    ELSE [raised |-> "TypeError", results |-> res, called |-> <<>>]

-----------------------------------------------------------------------------
(* SPARC.write_input and SPARC.calculate *)

\* A buggy variant: the converted parameters overwrite the ones given directly.
overlay_reversed(converted_params, valid) == DictUpdate(valid, converted_params)

\* lines 125-126: input_parameters = converted_params.copy(); .update(valid_params)
overlay(converted_params, valid) == DictUpdate(converted_params, valid)

\* A buggy variant: an exception of write_input is swallowed.
calculate_swallow(phase, raised) ==
    CASE phase = "write_input" -> "execute"
      [] phase = "execute" -> IF raised = "none" THEN "read_results" ELSE "idle"
      [] phase = "read_results" -> "idle"

\* lines 115-117: where calculate goes after a phase that raised `raised`
calculate_next(phase, raised) ==
    IF raised # "none" THEN "idle"
    ELSE CASE phase = "write_input" -> "execute"
           [] phase = "execute" -> "read_results"
           [] phase = "read_results" -> "idle"

-----------------------------------------------------------------------------
(* Inputs *)

\* values a caller gives for a keyword argument
ValuesOf(key) ==
    CASE Upper(key) \in {"XC", "EXCHANGE_CORRELATION"} -> {"PBE", "lda", "scan"}
      [] key = "h" -> {"h1", "bad"}
      [] key \in {"encut", "convergence"} -> {"v1"}
      [] OTHER -> {"v1", "v2", "bad"}

Pairs(keys) == UNION {{<<k, v>> : v \in ValuesOf(k)} : k \in keys}

\* the kwargs dicts with at most MaxKwargs items whose names are in keys
KwargsOver(keys) ==
    UNION {{kw \in [1..n -> Pairs(keys)] :
               \A i, j \in 1..n : i # j => kw[i][1] # kw[j][1]} : n \in 0..MaxKwargs}

SanitizeKeys == {"xc", "XC", "h", "gpts", "encut", "fd_grid", "Fd_Grid", "FD_GRID", "nstates"}
WriteKeys == {"xc", "h", "gpts", "kpts", "nbands", "encut", "convergence", "FD_GRID", "NSTATES"}
LifecycleKeys == {"h", "gpts"}

UserCommand == <<"srun", " ", "sparc">>
EnvCommand == <<"mpirun", " ", "sparc">>
OtherEnvCommand == <<"sparc_dbg">>
Commands == {None, UserCommand}
Environs == {None, EnvCommand, OtherEnvCommand}

NoSparc == [sparc_exe |-> None, mpi_exe |-> None, num_cores |-> <<"1">>]
Paths == {NoSparc,
          [sparc_exe |-> <<"/bin/sparc">>, mpi_exe |-> None, num_cores |-> <<"1">>],
          [sparc_exe |-> <<"/bin/sparc">>, mpi_exe |-> <<"mpirun">>, num_cores |-> <<"4">>]}

\* self.label, and the extras execute passes: f"-name {self.label}"
label == <<"SPARC">>
ExecuteExtras == [list |-> FALSE, value |-> <<"-name", " ">> \o label]

\* extras a caller passes to _make_command
Extras == {[list |-> FALSE, value |-> <<>>],
           [list |-> FALSE, value |-> <<" ", "-socket", " ">>],
           [list |-> TRUE, value |-> << <<"-name">>, <<"SPARC">> >>],
           ExecuteExtras}

Atoms == {NoAtoms, "cell"}

\* largest exit code of the external program in the model
MaxReturnCode == 2

\* exit codes subprocess.run reports; a negative one is a death by signal
ReturnCodes == {-9} \cup (0..MaxReturnCode)

\* what sparc_bundle.read_results() may return
StaticDicts == {("free energy" :> "E1"),
                ("free energy" :> "E2") @@ ("forces" :> "F2") @@ ("stress" :> "S2")}
FermiStep(unit) == ("fermi level" :> [value |-> <<"f1">>, unit |-> unit])
OutDicts == {("ionic_steps" :> <<FermiStep("Hartree")>>),
             ("ionic_steps" :> <<FermiStep("Ry")>>)}
RawDict(modes, static, out) ==
    [k \in modes \cup (IF out = <<>> THEN {} ELSE {"out"}) |->
        CASE k = "static" -> static
          [] k = "out" -> out[1]
          [] OTHER -> EmptyDict]
BundleOutputs ==
    {RawDict(modes, static, out) :
        modes \in SUBSET {"static", "geopt", "aimd"},
        static \in StaticDicts,
        out \in {<<>>} \cup {<<o>> : o \in OutDicts}}

-----------------------------------------------------------------------------
(* State machine *)

InitWith(kwset, envset, pathset) ==
    /\ pc = "new"
    /\ kwargs \in kwset
    /\ valid_params = EmptyDict
    /\ special_params = EmptyDict
    /\ warnings = {}
    /\ atoms = NoAtoms
    /\ command = None
    /\ environ \in envset
    /\ path \in pathset
    /\ made = None
    /\ proc = <<>>
    /\ launch = "none"
    /\ input_parameters = <<>>
    /\ raw_results = EmptyDict
    /\ results = EmptyDict
    /\ exc = "none"
    /\ trace = <<>>

\* SPARC.__init__(command=cmd, **kwargs)
Construct ==
    /\ pc = "new"
    /\ \E cmd \in Commands :
         LET san == sanitize_kwargs(kwargs)
         IN  /\ command' = cmd
             /\ valid_params' = san.valid_params
             /\ special_params' = san.special_params
             /\ warnings' = san.warnings
    /\ raw_results' = EmptyDict
    /\ results' = EmptyDict
    /\ atoms' = NoAtoms
    /\ pc' = "idle"
    /\ UNCHANGED <<kwargs, environ, path, made, proc, launch, input_parameters, exc, trace>>

\* the environment changes $ASE_SPARC_COMMAND between two calls
SetEnviron ==
    /\ pc = "idle"
    /\ \E e \in Environs : e # environ /\ environ' = e
    /\ UNCHANGED <<pc, kwargs, valid_params, special_params, warnings, atoms, command,
                   path, made, proc, launch, input_parameters, raw_results, results,
                   exc, trace>>

\* the environment changes $PATH between two calls
SetPath ==
    /\ pc = "idle"
    /\ \E p \in Paths : p # path /\ path' = p
    /\ UNCHANGED <<pc, kwargs, valid_params, special_params, warnings, atoms, command,
                   environ, made, proc, launch, input_parameters, raw_results, results,
                   exc, trace>>

\* a call of _make_command(extras)
MakeCommand ==
    /\ pc = "idle"
    /\ \E extras \in Extras :
         LET mk == make_command(command, environ, path, extras)
         IN  /\ command' = mk.command
             /\ made' = mk.result
             /\ exc' = mk.raised
             /\ warnings' = IF mk.warned THEN warnings \cup {<<"inferred", "command">>}
                            ELSE warnings
    /\ trace' = <<"_make_command">>
    /\ UNCHANGED <<pc, kwargs, valid_params, special_params, atoms, environ, path,
                   proc, launch, input_parameters, raw_results, results>>

\* calculate(atoms=a), line 114: Calculator.calculate keeps a copy of the atoms
Calculate ==
    /\ pc = "idle"
    /\ \E a \in Atoms : atoms' = IF a # NoAtoms THEN a ELSE atoms
    /\ pc' = "write_input"
    /\ exc' = "none"
    /\ launch' = "none"
    /\ trace' = <<>>
    /\ UNCHANGED <<kwargs, valid_params, special_params, warnings, command, environ,
                   path, made, proc, input_parameters, raw_results, results>>

\* write_input(self.atoms), line 115
WriteInput ==
    /\ pc = "write_input"
    /\ LET conv == convert_special_params(special_params, atoms)
       IN  /\ exc' = conv.raised
           /\ pc' = calculate_next("write_input", conv.raised)
           /\ input_parameters' =
                IF conv.raised = "none"
                THEN <<overlay(conv.converted, valid_params)>>
                ELSE input_parameters
    /\ trace' = Append(trace, "write_input")
    /\ UNCHANGED <<kwargs, valid_params, special_params, warnings, atoms, command,
                   environ, path, made, proc, launch, raw_results, results>>

\* execute(), line 116
Execute ==
    /\ pc = "execute"
    /\ trace' = Append(trace, "execute")
    /\ LET mk == make_command(command, environ, path, ExecuteExtras)
       IN  /\ command' = mk.command
           /\ made' = mk.result
           /\ warnings' = IF mk.warned THEN warnings \cup {<<"inferred", "command">>}
                          ELSE warnings
           /\ IF mk.raised # "none"
              THEN /\ exc' = mk.raised
                   /\ pc' = calculate_next("execute", mk.raised)
                   /\ UNCHANGED <<proc, launch>>
              ELSE \/ /\ launch' = "oserror"
                      /\ exc' = "EnvironmentError"
                      /\ pc' = calculate_next("execute", "EnvironmentError")
                      /\ UNCHANGED proc
                   \/ \E errorcode \in ReturnCodes :
                        /\ launch' = "exited"
                        /\ proc' = <<errorcode>>
                        /\ exc' = execute_check(errorcode)
                        /\ pc' = calculate_next("execute", execute_check(errorcode))
    /\ UNCHANGED <<kwargs, valid_params, special_params, atoms, environ, path,
                   input_parameters, raw_results, results>>

\* read_results(), line 117
ReadResults ==
    /\ pc = "read_results"
    /\ \E raw_result_dict \in BundleOutputs :
         LET rd == read_results_dispatch(raw_result_dict, results)
         IN  /\ raw_results' = raw_result_dict
             /\ results' = rd.results
             /\ exc' = rd.raised
             /\ pc' = calculate_next("read_results", rd.raised)
             /\ trace' = Append(trace, "read_results") \o rd.called
    /\ UNCHANGED <<kwargs, valid_params, special_params, warnings, atoms, command,
                   environ, path, made, proc, launch, input_parameters>>

\* the calculate pipeline
Init == InitWith(KwargsOver(LifecycleKeys), {None, EnvCommand}, {NoSparc})
Next == Construct \/ Calculate \/ WriteInput \/ Execute \/ ReadResults
Spec == Init /\ [][Next]_vars

\* construction alone, over many kwargs
InitSanitize == InitWith(KwargsOver(SanitizeKeys), {None}, {NoSparc})
NextSanitize == Construct
SpecSanitize == InitSanitize /\ [][NextSanitize]_vars

\* construction and write_input, over many kwargs
InitWrite == InitWith(KwargsOver(WriteKeys), {None}, {NoSparc})
NextWrite == Construct \/ Calculate \/ WriteInput
SpecWrite == InitWrite /\ [][NextWrite]_vars

\* command resolution under a changing environment
InitCommand == InitWith({<<>>}, Environs, Paths)
NextCommand == Construct \/ SetEnviron \/ SetPath \/ MakeCommand
SpecCommand == InitCommand /\ [][NextCommand]_vars

-----------------------------------------------------------------------------
(* Properties *)

Range(seq) == {seq[i] : i \in 1..Len(seq)}

IsPrefix(a, b) == Len(a) <= Len(b) /\ SubSeq(b, 1, Len(a)) = a

Phases == <<"write_input", "execute", "read_results">>

\* the phases of calculate among the methods of a trace, in order
PhasesOf(tr) == SelectSeq(tr, LAMBDA m : m \in Range(Phases))

Extractions == {"_extract_static_results", "_extract_geopt_results", "_extract_aimd_results"}

\* C1: calculate runs write_input, execute, read_results in this order, each
\* at most once per call; a phase starts only after the one before it
\* returned normally, so a raising write_input ends the call before the
\* program is started and a raising execute ends it before read_results; and
\* raw_results and results change in no step other than read_results.
C1_Step ==
    /\ IsPrefix(PhasesOf(trace'), Phases)
    /\ pc' = "execute" => pc = "write_input" /\ exc' = "none"
    /\ pc' = "read_results" => pc = "execute" /\ exc' = "none"
    /\ (pc = "write_input" /\ exc' # "none") =>
           pc' = "idle" /\ launch' = "none" /\ proc' = proc /\ "execute" \notin Range(trace')
    /\ (pc = "execute" /\ exc' # "none") =>
           pc' = "idle" /\ "read_results" \notin Range(trace')
    /\ pc # "read_results" => raw_results' = raw_results /\ results' = results
C1_PhaseOrder == [][C1_Step]_vars

\* a call in which execute raised while results of an earlier call are kept
C1_Witness ==
    /\ pc = "idle"
    /\ trace = <<"write_input", "execute">>
    /\ exc = "CalculationFailed"
    /\ "energy" \in DOMAIN results
    /\ "static" \in DOMAIN raw_results

\* C2: when execute has run the program, a positive exit code gives
\* CalculationFailed, exit code 0 a normal return; an OSError of the launch
\* gives EnvironmentError.
C2_ExitCodes ==
    (trace # <<>> /\ trace[Len(trace)] = "execute") =>
        /\ (launch = "exited" /\ proc[1] > 0) => exc = "CalculationFailed" /\ pc = "idle"
        /\ (launch = "exited" /\ proc[1] = 0) => exc = "none" /\ pc = "read_results"
        /\ launch = "oserror" => exc = "EnvironmentError" /\ pc = "idle"

C2_Witness ==
    /\ trace = <<"write_input", "execute">>
    /\ launch = "exited"
    /\ proc = <<1>>
    /\ exc = "CalculationFailed"

\* C3: read_results, reached after the program exited with 0, runs exactly
\* one extraction, chosen by the keys of the raw result dict with priority
\* static, geopt, aimd, and then the out-file extraction.
C3_Dispatch ==
    LET modes == DOMAIN raw_results \cap {"static", "geopt", "aimd"}
        selected == IF "static" \in modes THEN "_extract_static_results"
                    ELSE IF "geopt" \in modes THEN "_extract_geopt_results"
                    ELSE "_extract_aimd_results"
    IN  ("read_results" \in Range(trace) /\ proc = <<0>> /\ modes # {}) =>
            /\ Range(trace) \cap Extractions = {selected}
            /\ "_extract_out_results" \in Range(trace)

\* C4: with none of the keys static, geopt, aimd, read_results (reached
\* after the program exited with 0) raises CalculationFailed and does not run
\* the out-file extraction.
C4_NoMode ==
    ("read_results" \in Range(trace) /\ proc = <<0>>
        /\ DOMAIN raw_results \cap {"static", "geopt", "aimd"} = {}) =>
        /\ exc = "CalculationFailed"
        /\ "_extract_out_results" \notin Range(trace)

\* C5: a _make_command call resolves the base command as self.command, else
\* $ASE_SPARC_COMMAND, else the setup found in $PATH, and raises
\* EnvironmentError when there is none; it returns the base followed by the
\* extras and stores the base in self.command, which no step changes once set.
C5_Step ==
    /\ command # None => command' = command
    /\ (pc = "idle" /\ pc' = "idle" /\ environ' = environ /\ path' = path) =>
         LET base == IF command # None THEN command
                     ELSE IF environ # None THEN environ
                     ELSE IF path.sparc_exe # None THEN inferred_command(path)
                     ELSE None
         IN  IF base = None
             THEN exc' = "EnvironmentError" /\ command' = None
             ELSE /\ exc' = "none"
                  /\ command' = base
                  /\ \E extras \in Extras :
                       made' = base \o <<" ">> \o normalize_extras(extras)
C5_CommandResolution == [][C5_Step]_vars

\* the command taken from the environment is still returned after the
\* environment variable changed
C5_Witness ==
    /\ command = EnvCommand
    /\ environ = OtherEnvCommand
    /\ made = EnvCommand \o <<" ", "-socket">>

\* C6: after construction special_params holds exactly the kwargs named by a
\* special input, under their own names; valid_params holds, under the
\* upper-cased name, the last accepted value of the other kwargs; its keys
\* are upper-case and accepted; every rejected kwarg was warned about; and
\* the two dicts share no key.
C6_Partition ==
    pc = "idle" =>
        LET idx == 1..Len(kwargs)
            special == {i \in idx : kwargs[i][1] \in special_inputs}
            accepted == {i \in idx \ special :
                            validate_input(Upper(kwargs[i][1]), kwargs[i][2])}
            rejected == (idx \ special) \ accepted
        IN  /\ DOMAIN special_params = {kwargs[i][1] : i \in special}
            /\ \A i \in special : special_params[kwargs[i][1]] = kwargs[i][2]
            /\ DOMAIN valid_params = {Upper(kwargs[i][1]) : i \in accepted}
            /\ \A K \in DOMAIN valid_params :
                 /\ Upper(K) = K
                 /\ validate_input(K, valid_params[K])
                 /\ \E i \in accepted :
                      /\ Upper(kwargs[i][1]) = K
                      /\ valid_params[K] = kwargs[i][2]
                      /\ \A j \in accepted : Upper(kwargs[j][1]) = K => j <= i
            /\ \A i \in rejected : <<"invalid", Upper(kwargs[i][1])>> \in warnings
            /\ DOMAIN special_params \cap DOMAIN valid_params = {}

\* three spellings of one keyword next to a special input: the last
\* accepted value is kept, the rejected one is warned about
C6_Witness ==
    /\ pc = "idle"
    /\ Len(kwargs) = 3
    /\ {kwargs[i][1] : i \in 1..2} = {"fd_grid", "Fd_Grid"}
    /\ kwargs[1][2] = "v1" /\ kwargs[2][2] = "v2"
    /\ kwargs[3] = <<"FD_GRID", "bad">>
    /\ valid_params = ("FD_GRID" :> "v2")
    /\ <<"invalid", "FD_GRID">> \in warnings
    /\ <<"multiple", "FD_GRID">> \in warnings

\* C7: after write_input every special parameter the user gave was either
\* translated (the converted parameters depend on it) or write_input raised.
C7_NoSilentDrop ==
    (trace = <<"write_input">>) =>
        \A k \in DOMAIN special_params :
            \/ exc # "none"
            \/ convert_special_params(DictPop(special_params, k), atoms).converted
                   # convert_special_params(special_params, atoms).converted

\* C8: write_input passes the converted special parameters overlaid by
\* valid_params to the bundle and modifies neither valid_params nor
\* special_params.
C8_Step ==
    pc = "write_input" =>
        /\ valid_params' = valid_params
        /\ special_params' = special_params
        /\ exc' = "none" =>
             LET converted == convert_special_params(special_params, atoms).converted
                 passed == input_parameters'[1]
             IN  /\ Len(input_parameters') = 1
                 /\ DOMAIN passed = DOMAIN converted \cup DOMAIN valid_params
                 /\ \A k \in DOMAIN passed :
                      passed[k] = IF k \in DOMAIN valid_params
                                  THEN valid_params[k] ELSE converted[k]
C8_Overlay == [][C8_Step]_vars

\* FD_GRID given directly and also derived from gpts, with different values
C8_Witness ==
    /\ pc = "execute"
    /\ "FD_GRID" \in DOMAIN valid_params
    /\ "gpts" \in DOMAIN special_params
    /\ valid_params["FD_GRID"] # special_params["gpts"]
    /\ input_parameters = <<("FD_GRID" :> valid_params["FD_GRID"])>>

\* C9: with both h and gpts write_input raises KeyError; with h, no gpts and
\* no atoms object it raises ValueError; in both cases nothing was passed to
\* the bundle and the program was not run.
C9_GridErrors ==
    (trace # <<>> /\ trace[1] = "write_input") =>
        /\ {"h", "gpts"} \subseteq DOMAIN special_params =>
             /\ exc = "KeyError"
             /\ pc = "idle"
             /\ input_parameters = <<>>
             /\ launch = "none" /\ proc = <<>>
        /\ ("h" \in DOMAIN special_params /\ "gpts" \notin DOMAIN special_params
               /\ atoms = NoAtoms) =>
             /\ exc = "ValueError"
             /\ pc = "idle"
             /\ input_parameters = <<>>
             /\ launch = "none" /\ proc = <<>>

C9_Witness ==
    /\ trace = <<"write_input">>
    /\ DOMAIN special_params = {"h", "gpts"}
    /\ exc = "KeyError"
    /\ atoms # NoAtoms

\* C10: read_results is reached only when the program exited with code 0.
C10_OnlyAfterSuccess ==
    "read_results" \in Range(trace) => proc = <<0>>

====
